---- MODULE Spec2Model ----
(***************************************************************************)
(* A model of the accessibility pipeline scripts                           *)
(*   02_generate_grids.py, 03_extract_population.py,                       *)
(*   04_calculate_accessibility.py, 05_compute_metrics.py.                 *)
(* One behaviour is one invocation of one script on inputs drawn from      *)
(* bounded sets (script 05 may also be run on the file script 04 wrote).   *)
(* Floating-point values are modelled as exact rationals <<n, d>>; NaN is  *)
(* the pair <<0, 0>>.  Coordinates are drawn from a lattice on which every  *)
(* Euclidean distance is an integer, so the square root is exact.          *)
(***************************************************************************)
EXTENDS Integers, Sequences, FiniteSets, TLC

VARIABLES
    script,           \* which script this invocation runs: "02" "03" "04" "05"
    pc,               \* position in the script
    argc,             \* len(sys.argv)
    exit_status,      \* -1 while running, 0 normal end, 1 sys.exit(1) / uncaught exception
    files_read,       \* the input files opened so far
    written,          \* the output file: NotWritten, or File(the rows written)
    grids,            \* the grids (Geo)DataFrame: a sequence of rows
    columns,          \* the columns of the grids frame
    facilities,       \* script 04: the facilities table [columns, rows]
    idx,              \* loop index of the current for loop (0-based, as in the code)
    responses,        \* script 04: the routing responses received so far
    route_distances,  \* script 04: list route_distances
    route_durations,  \* script 04: list route_durations
    requests_sent,    \* script 04: number of requests.get calls made
    requests,         \* script 04: the URLs requested so far, in order
    hexagons,         \* script 02: list hexagons
    hex_ids,          \* script 02: list hex_ids
    hex_geometries,   \* script 02: list hex_geometries
    populations,      \* script 03: list populations
    metrics_list,     \* script 05: list metrics_list
    metrics_df,       \* script 05: the returned DataFrame (a sequence of rows)
    input             \* the files on disk the invocation is given

vars == <<script, pc, argc, exit_status, files_read, written, grids, columns,
          facilities, idx, responses, route_distances, route_durations,
          requests_sent, requests, hexagons, hex_ids, hex_geometries, populations,
          metrics_list, metrics_df, input>>

\* The process: fixed during one invocation.
proc == <<script, argc, input>>
\* The locals of script 04 and of script 05.
v04 == <<facilities, responses, route_distances, route_durations, requests_sent,
         requests>>
v05 == <<metrics_list, metrics_df>>
\* The locals of script 02 and of script 03.
v02 == <<hexagons, hex_ids, hex_geometries>>
v03 == <<populations>>

-----------------------------------------------------------------------------
(* Bounds of the model *)

MaxGrids == 2
MaxFacilities == 2
MaxMissing == 2
MaxGeoms == 2
RasterWidth == 3

-----------------------------------------------------------------------------
(* Values *)

NULL == "<null>"
\* The output file: absent, or <<its contents>>.
NotWritten == <<>>
File(contents) == <<contents>>
Contents(file) == file[1]
NaN == <<0, 0>>

Abs(x) == IF x < 0 THEN -x ELSE x

RECURSIVE GCD(_, _)
GCD(a, b) == IF b = 0 THEN a ELSE GCD(b, a % b)

\* The float n/d (d # 0), in lowest terms with a positive denominator.
Rat(n, d) ==
    LET g == GCD(Abs(n), Abs(d))
        s == IF d < 0 THEN -1 ELSE 1
    IN  <<s * (n \div g), s * (d \div g)>>

IsNaN(x) == x[2] = 0

\* IEEE arithmetic: NaN propagates, x / 0 of a numpy float is nan or inf
\* (modelled as NaN, no distance of the model is divided by zero).
RatAdd(x, y) ==
    IF IsNaN(x) \/ IsNaN(y) THEN NaN
    ELSE Rat(x[1] * y[2] + y[1] * x[2], x[2] * y[2])

RatMul(x, y) ==
    IF IsNaN(x) \/ IsNaN(y) THEN NaN ELSE Rat(x[1] * y[1], x[2] * y[2])

RatDiv(x, y) ==
    IF IsNaN(x) \/ IsNaN(y) \/ y[1] = 0 THEN NaN
    ELSE Rat(x[1] * y[2], x[2] * y[1])

\* Comparisons with NaN are False.
RatLe(x, y) == ~IsNaN(x) /\ ~IsNaN(y) /\ x[1] * y[2] <= y[1] * x[2]
RatLt(x, y) == ~IsNaN(x) /\ ~IsNaN(y) /\ x[1] * y[2] < y[1] * x[2]

Int2Rat(n) == <<n, 1>>

\* The exact square root of a perfect square.
Sqrt(n) == CHOOSE r \in 0..n : r * r = n

SeqsUpTo(S, lo, hi) == UNION {[1..n -> S] : n \in lo..hi}

-----------------------------------------------------------------------------
(* The command line of the four scripts *)

\* Faulty thresholds, each one too small.
MinArgc_OneLess(s) ==
    CASE s = "02" -> 2
      [] s = "03" -> 3
      [] s = "04" -> 4
      [] s = "05" -> 3

\* len(sys.argv) below which a script prints its usage and exits
\* (02: line 68, 03: line 78, 04: line 129, 05: line 133).
MinArgc(s) ==
    CASE s = "02" -> 3
      [] s = "03" -> 4
      [] s = "04" -> 5
      [] s = "05" -> 4

\* The argument counts tried: up to MaxMissing arguments too few, exactly the
\* required ones, and for script 02 also its optional resolution argument
\* (the optional port of script 04 only changes the URL, which the model
\* does not carry).
ArgcValues(s) ==
    {a \in 1..(MinArgc(s) + (IF s = "02" THEN 1 ELSE 0)) : a >= MinArgc(s) - MaxMissing}

\* sys.exit(1) after the usage message.
CheckArgs(s) ==
    /\ script = s /\ pc = "start"
    /\ IF argc < MinArgc(s)
       THEN pc' = "exited" /\ exit_status' = 1
       ELSE pc' = "load" /\ UNCHANGED exit_status
    /\ UNCHANGED <<proc, files_read, written, grids, columns, idx, v04, v05, v02, v03>>

\* The state of a process that has just started.
Fresh ==
    /\ pc = "start"
    /\ exit_status = -1
    /\ files_read = {}
    /\ written = NotWritten
    /\ grids = <<>> /\ columns = {}
    /\ facilities = [columns |-> {}, rows |-> <<>>]
    /\ idx = 0
    /\ responses = <<>> /\ route_distances = <<>> /\ route_durations = <<>>
    /\ requests_sent = 0 /\ requests = <<>>
    /\ metrics_list = <<>> /\ metrics_df = <<>>
    /\ hexagons = <<>> /\ hex_ids = <<>> /\ hex_geometries = <<>>
    /\ populations = <<>>

-----------------------------------------------------------------------------
(* Script 02: 02_generate_grids.py *)

\* The district is modelled on a strip of positions 0..3 at latitude
\* 10.  A geometry is the set of positions it covers.  The cells of the
\* hexagonal tiling are <<resolution, position>>: resolution 9 has a cell
\* centred on every position, the coarser resolution 8 on every second one.
DistrictShapes == {{}, {2}, {0, 1}, {1, 2, 3}}
DefaultResolution == 8
ResolutionArgs == {9}

DistrictFiles == SeqsUpTo(DistrictShapes, 1, MaxGeoms)

CellPositions(resolution) == IF resolution >= 9 THEN {0, 1, 2, 3} ELSE {0, 2}
CellSize(resolution) == IF resolution >= 9 THEN 1 ELSE 2
CellCentre(hex_id) == [lat |-> 10, lon |-> 4 * hex_id[2]]

\* h3.polyfill_geojson: the set of cells whose centre lies in the geometry.
polyfill_geojson(geom, resolution) ==
    {<<resolution, q>> : q \in CellPositions(resolution) \cap geom}

\* list(set): the elements in some order.
ListsOf(S) ==
    {f \in [1..Cardinality(S) -> S] :
        \A i, j \in 1..Cardinality(S) : i # j => f[i] # f[j]}

\* h3.h3_to_geo_boundary(hex_id, geo_json=True): the closed ring of the
\* hexagon's vertices as (lon, lat) pairs.
HexOffsets ==
    <<<<2, 0>>, <<1, 2>>, <<-1, 2>>, <<-2, 0>>, <<-1, -2>>, <<1, -2>>, <<2, 0>>>>

h3_to_geo_boundary(hex_id) ==
    [i \in 1..Len(HexOffsets) |->
        <<CellCentre(hex_id).lon + CellSize(hex_id[1]) * HexOffsets[i][1],
          CellCentre(hex_id).lat + CellSize(hex_id[1]) * HexOffsets[i][2]>>]

\* shapely's centroid of a polygon ring: the area-weighted centroid.
RECURSIVE IntSum(_)
IntSum(xs) == IF xs = <<>> THEN 0 ELSE Head(xs) + IntSum(Tail(xs))

Cross(ring, i) == ring[i][1] * ring[i + 1][2] - ring[i + 1][1] * ring[i][2]

Centroid(ring) ==
    LET n == Len(ring) - 1
        a2 == IntSum([i \in 1..n |-> Cross(ring, i)])
    IN  [x |-> Rat(IntSum([i \in 1..n |->
                        (ring[i][1] + ring[i + 1][1]) * Cross(ring, i)]), 3 * a2),
         y |-> Rat(IntSum([i \in 1..n |->
                        (ring[i][2] + ring[i + 1][2]) * Cross(ring, i)]), 3 * a2)]

\* A faulty choice of the district's last geometry.
LastGeometry(district) == district[Len(district)]

\* Line 31: district.geometry.iloc[0].
FirstGeometry(district) == district[1]

\* Line 74: the resolution argument, 8 when it is not given.
Resolution == IF argc > 3 THEN input.resolution_arg[1] ELSE DefaultResolution

Main02CheckArgs ==
    /\ script = "02"
    /\ CheckArgs("02")

\* Lines 24-40: read the district, take its first geometry, tile it.
Generate02Polyfill ==
    /\ script = "02" /\ pc = "load"
    /\ files_read' = {"district_file"}
    /\ LET geom == FirstGeometry(input.district_file)
       IN  hexagons' \in ListsOf(polyfill_geojson(geom, Resolution))
    /\ pc' = "hexagon"
    /\ idx' = 0
    /\ UNCHANGED <<proc, exit_status, written, grids, columns, v04, v05,
                   hex_ids, hex_geometries, v03>>

\* Lines 46-52: one iteration of the loop over the hexagons.
Generate02Hexagon ==
    /\ script = "02" /\ pc = "hexagon" /\ idx < Len(hexagons)
    /\ LET hex_id == hexagons[idx + 1]
       IN  /\ hex_geometries' = Append(hex_geometries, h3_to_geo_boundary(hex_id))
           /\ hex_ids' = Append(hex_ids, hex_id)
    /\ idx' = idx + 1
    /\ UNCHANGED <<proc, pc, exit_status, files_read, written, grids, columns,
                   v04, v05, hexagons, v03>>

\* Lines 55-64: the GeoDataFrame and its centroid columns.
Generate02Frame ==
    /\ script = "02" /\ pc = "hexagon" /\ idx = Len(hexagons)
    /\ grids' = [i \in 1..Len(hex_ids) |->
                    [hex_id |-> hex_ids[i],
                     geometry |-> hex_geometries[i],
                     centroid_lat |-> Centroid(hex_geometries[i]).y,
                     centroid_lon |-> Centroid(hex_geometries[i]).x]]
    /\ columns' = {"hex_id", "geometry", "centroid_lat", "centroid_lon"}
    /\ pc' = "save"
    /\ UNCHANGED <<proc, exit_status, files_read, written, idx, v04, v05, v02, v03>>

\* Lines 79-81.
Main02Save ==
    /\ script = "02" /\ pc = "save"
    /\ written' = File(grids)
    /\ pc' = "done" /\ exit_status' = 0
    /\ UNCHANGED <<proc, files_read, grids, columns, idx, v04, v05, v02, v03>>

Init02 ==
    /\ script = "02"
    /\ argc \in ArgcValues("02")
    /\ input \in [district_file : DistrictFiles,
                   resolution_arg : IF argc > 3 THEN {<<r>> : r \in ResolutionArgs}
                                    ELSE {<<>>}]
    /\ Fresh

-----------------------------------------------------------------------------
(* Script 03: 03_extract_population.py *)

\* The raster is a strip of cells 1..RasterWidth.  A grid polygon is the set
\* of positions it covers; position 0 lies outside the raster.
RasterValues == {-1, 0, 2}
NodataValues == {<<>>, <<-1>>, <<2>>}
GridShapes == {{}, {0}, {0, 1}, {1, 3}, {2, 3}}

Rasters ==
    [nodata : NodataValues, band : [1..RasterWidth -> RasterValues]]

GridFiles03 ==
    {[i \in 1..Len(g) |-> [hex_id |-> i, geometry |-> g[i]]] :
     g \in SeqsUpTo(GridShapes, 1, MaxGrids)}

SetMin(S) == CHOOSE x \in S : \A y \in S : x <= y
SetMax(S) == CHOOSE x \in S : \A y \in S : x >= y

\* rasterio.mask.mask raises ValueError when the shape does not overlap the
\* raster.
MaskRaises(src, geometry) == geometry \cap DOMAIN src.band = {}

\* rasterio.mask.mask(src, [geometry], crop=True, nodata=src.nodata)[0][0]:
\* the window of the raster around the shape, the cells outside the shape
\* set to nodata (to 0 when the raster has no nodata value).
Mask(src, geometry) ==
    LET inside == geometry \cap DOMAIN src.band
        lo == SetMin(inside)
        hi == SetMax(inside)
        fill == IF src.nodata = <<>> THEN 0 ELSE src.nodata[1]
    IN  [k \in 1..(hi - lo + 1) |->
            IF (lo + k - 1) \in inside THEN src.band[lo + k - 1] ELSE fill]

\* A faulty filter that keeps the negative values.
ValidData_KeepNegative(src, out_band) ==
    IF src.nodata # <<>>
    THEN SelectSeq(out_band, LAMBDA v : v # src.nodata[1])
    ELSE out_band

\* Lines 51-55: the values that are summed.
ValidData(src, out_band) ==
    LET not_nodata == IF src.nodata # <<>>
                      THEN SelectSeq(out_band, LAMBDA v : v # src.nodata[1])
                      ELSE out_band
    IN  SelectSeq(not_nodata, LAMBDA v : v > 0)

\* Lines 44-62: the population appended for one grid.
GridPopulation(src, geometry) ==
    IF MaskRaises(src, geometry) THEN Int2Rat(0)
    ELSE LET valid_data == ValidData(src, Mask(src, geometry))
         IN  IF Len(valid_data) > 0 THEN Int2Rat(IntSum(valid_data)) ELSE Int2Rat(0)

Main03CheckArgs ==
    /\ script = "03"
    /\ CheckArgs("03")

\* Lines 24-39: read the grids, open the raster.
Extract03Open ==
    /\ script = "03" /\ pc = "load"
    /\ files_read' = {"grids_file", "population_tif"}
    /\ grids' = input.grids_file
    /\ columns' = {"hex_id", "geometry"}
    /\ populations' = <<>>
    /\ pc' = "extract"
    /\ idx' = 0
    /\ UNCHANGED <<proc, exit_status, written, v04, v05, v02>>

\* Lines 40-62: one iteration of the loop over the grids.
Extract03Grid ==
    /\ script = "03" /\ pc = "extract" /\ idx < Len(grids)
    /\ populations' =
          Append(populations, GridPopulation(input.population_tif, grids[idx + 1].geometry))
    /\ idx' = idx + 1
    /\ UNCHANGED <<proc, pc, exit_status, files_read, written, grids, columns,
                   v04, v05, v02>>

\* Lines 64-74: the list becomes the population column.
Extract03Finish ==
    /\ script = "03" /\ pc = "extract" /\ idx = Len(grids)
    /\ grids' = [i \in 1..Len(grids) |-> grids[i] @@ [population |-> populations[i]]]
    /\ columns' = columns \cup {"population"}
    /\ pc' = "save"
    /\ UNCHANGED <<proc, exit_status, files_read, written, idx, v04, v05, v02, v03>>

\* Lines 89-91.
Main03Save ==
    /\ script = "03" /\ pc = "save"
    /\ written' = File(grids)
    /\ pc' = "done" /\ exit_status' = 0
    /\ UNCHANGED <<proc, files_read, grids, columns, idx, v04, v05, v02, v03>>

Init03 ==
    /\ script = "03"
    /\ argc \in ArgcValues("03")
    /\ input \in [grids_file : GridFiles03, population_tif : Rasters]
    /\ Fresh

-----------------------------------------------------------------------------
(* Script 04: 04_calculate_accessibility.py *)

\* Coordinates: every difference of two latitudes is 0 or 3, of two
\* longitudes 0 or 4, so distances are 0, 3, 4 or 5 degrees.
GridPoints == {<<0, 0>>, <<0, 4>>}

RequiredCols == {"name", "latitude", "longitude"}

\* The grids GeoJSON script 04 reads: rows with hex_id and centroid columns.
GridFiles04 ==
    {[i \in 1..Len(p) |->
        [hex_id |-> i, centroid_lat |-> p[i][1], centroid_lon |-> p[i][2]]] :
     p \in SeqsUpTo(GridPoints, 1, MaxGrids)}

\* Rows of the facilities CSV; a table may hold the same row twice, which
\* gives two facilities of one name at one position.
FacilityRows ==
    {[name |-> "A", latitude |-> 0, longitude |-> 0],
     [name |-> "B", latitude |-> 3, longitude |-> 4]}

\* The facilities CSV: a header and rows; a file lacking a required column
\* is modelled with no rows (its rows are never looked at).
FacilityFiles ==
    {[columns |-> RequiredCols, rows |-> r] :
        r \in SeqsUpTo(FacilityRows, 0, MaxFacilities)}
    \cup {[columns |-> RequiredCols \ {c}, rows |-> <<>>] : c \in RequiredCols}

\* Default keyword arguments of calculate_osrm_distances.
batch_size == 100

\* What requests.get / response.json() can produce for one request.
\*   exception : requests.get raises (connection error, timeout)
\*   http_error: status_code # 200
\*   not_ok    : 200, data['code'] # 'Ok'
\*   no_routes : 200, code 'Ok', routes == []
\*   malformed : 200, body not JSON or lacking code/routes/distance/duration
\*   partial   : 200, code 'Ok', a numeric distance and a null duration
\*   ok        : 200, code 'Ok', numeric distance (m) and duration (s)
\* A JSON number is a one-element sequence, JSON null the empty sequence.
RouteDistancesM == {1500}
RouteDurationsS == {90}

Responses ==
    {[raised |-> TRUE, status |-> 0, json |-> FALSE, code |-> "", routes |-> <<>>]}
    \cup {[raised |-> FALSE, status |-> 500, json |-> FALSE, code |-> "", routes |-> <<>>]}
    \cup {[raised |-> FALSE, status |-> 200, json |-> FALSE, code |-> "", routes |-> <<>>]}
    \cup {[raised |-> FALSE, status |-> 200, json |-> TRUE, code |-> "NoRoute", routes |-> <<>>]}
    \cup {[raised |-> FALSE, status |-> 200, json |-> TRUE, code |-> "Ok", routes |-> <<>>]}
    \cup {[raised |-> FALSE, status |-> 200, json |-> TRUE, code |-> "Ok",
           routes |-> <<[distance |-> d, duration |-> <<>>]>>] : d \in RouteDistancesM}
    \cup {[raised |-> FALSE, status |-> 200, json |-> TRUE, code |-> "Ok",
           routes |-> <<[distance |-> d, duration |-> <<t>>]>>] :
          d \in RouteDistancesM, t \in RouteDurationsS}

\* A faulty fallback that multiplies by 0.5 instead of dividing.
FallbackDuration_Halved(row) == RatMul(row.straight_line_distance_km, Rat(1, 2))

\* Lines 102-103, 106-107, 112-113: the straight-line substitute.
FallbackDistance(row) == row.straight_line_distance_km
FallbackDuration(row) == RatDiv(row.straight_line_distance_km, Rat(1, 2))

\* A faulty conversion that leaves the distance in metres.
ToKm_Metres(distance_m) == Int2Rat(distance_m)

\* Lines 98-99: metres to km, seconds to minutes.
ToKm(distance_m) == RatDiv(Int2Rat(distance_m), Int2Rat(1000))
ToMin(duration_s) == RatDiv(Int2Rat(duration_s), Int2Rat(60))

\* Lines 90, 93: the condition under which the route of the response is used.
RouteFound(resp) ==
    /\ resp.status = 200
    /\ resp.code = "Ok"
    /\ Len(resp.routes) > 0

\* Lines 87-113: what one loop iteration appends to the two lists,
\* <<appended to route_distances, appended to route_durations>>.
HandleResponse(resp, row) ==
    LET fallback == <<<<FallbackDistance(row)>>, <<FallbackDuration(row)>>>>
    IN  IF resp.raised THEN fallback                    \* line 88 raises
        ELSE IF resp.status # 200 THEN fallback         \* lines 104-107
        ELSE IF ~resp.json THEN fallback                \* lines 91-96 raise
        ELSE IF RouteFound(resp)
             THEN LET route == resp.routes[1]
                  IN  IF Len(route.duration) = 0
                      \* line 98 has appended, line 99 raises TypeError,
                      \* lines 112-113 append the fallback to both lists
                      THEN <<<<ToKm(route.distance), FallbackDistance(row)>>,
                             <<FallbackDuration(row)>>>>
                      ELSE <<<<ToKm(route.distance)>>, <<ToMin(route.duration[1])>>>>
             ELSE fallback                              \* lines 100-103

\* Line 38, tree.query: Euclidean distance in (lat, lon) coordinates.
Distance(row, f) ==
    Sqrt((row.centroid_lat - f.latitude) * (row.centroid_lat - f.latitude)
         + (row.centroid_lon - f.longitude) * (row.centroid_lon - f.longitude))

\* A faulty query that always returns the first facility.
Nearest_FirstRow(row, rows) == {1}

\* Line 38: the indices (1-based rows) the tree may return for a grid; which
\* of several equidistant facilities it returns is not specified.
Nearest(row, rows) ==
    {k \in 1..Len(rows) :
        \A j \in 1..Len(rows) : Distance(row, rows[k]) <= Distance(row, rows[j])}

\* Lines 41-45: the columns added to a grid whose query returned index k.
Assigned(row, rows, k) ==
    row @@ [assigned_facility |-> rows[k].name,
            assigned_facility_id |-> k - 1,
            assigned_facility_lat |-> rows[k].latitude,
            assigned_facility_lon |-> rows[k].longitude,
            straight_line_distance_km |-> Int2Rat(Distance(row, rows[k]) * 111)]

Main04CheckArgs ==
    /\ script = "04"
    /\ CheckArgs("04")

\* Lines 140-160: read both files, validate the columns, choose the branch.
Main04Load ==
    /\ script = "04" /\ pc = "load"
    /\ files_read' = {"grids_file", "facilities_file"}
    /\ grids' = input.grids_file
    /\ columns' = {"hex_id", "centroid_lat", "centroid_lon"}
    /\ facilities' = input.facilities_file
    /\ IF ~(RequiredCols \subseteq input.facilities_file.columns)
       THEN pc' = "exited" /\ exit_status' = 1
       ELSE /\ UNCHANGED exit_status
            /\ pc' = IF Len(input.facilities_file.rows) = 0
                     THEN "no_facilities" ELSE "assign"
    /\ UNCHANGED <<proc, written, idx, responses, route_distances,
                   route_durations, requests_sent, requests, v05, v02, v03>>

\* Lines 155-159.
Main04NoFacilities ==
    /\ script = "04" /\ pc = "no_facilities"
    /\ grids' = [i \in 1..Len(grids) |->
                    grids[i] @@ [assigned_facility |-> NULL,
                                 route_distance_km |-> NaN,
                                 travel_time_min |-> NaN]]
    /\ columns' = columns \cup {"assigned_facility", "route_distance_km",
                                 "travel_time_min"}
    /\ pc' = "save"
    /\ UNCHANGED <<proc, exit_status, files_read, written, idx, v04, v05, v02, v03>>

\* Lines 14-50.
assign_grids_to_facilities ==
    /\ script = "04" /\ pc = "assign"
    /\ \E indices \in [1..Len(grids) -> 1..Len(facilities.rows)] :
          /\ \A i \in 1..Len(grids) : indices[i] \in Nearest(grids[i], facilities.rows)
          /\ grids' = [i \in 1..Len(grids) |->
                          Assigned(grids[i], facilities.rows, indices[i])]
    /\ columns' = columns \cup {"assigned_facility", "assigned_facility_id",
                                 "assigned_facility_lat", "assigned_facility_lon",
                                 "straight_line_distance_km"}
    /\ pc' = "route"
    /\ idx' = 0
    /\ UNCHANGED <<proc, exit_status, files_read, written, v04, v05, v02, v03>>

\* A faulty URL from the facility to the first grid's centroid.
Url_FirstGrid(row) ==
    <<grids[1].centroid_lon, grids[1].centroid_lat,
      row.assigned_facility_lon, row.assigned_facility_lat>>

\* Lines 79-85: the coordinates of the route URL, "lon,lat;lon,lat" from the
\* grid's centroid to its assigned facility.
Url(row) ==
    <<row.centroid_lon, row.centroid_lat,
      row.assigned_facility_lon, row.assigned_facility_lat>>

\* A faulty loop that asks a second time when the request raised.
RequestsMade_Retry(resp) == IF resp.raised THEN 2 ELSE 1

\* Line 88: the requests.get calls of one iteration, whatever the outcome.
RequestsMade(resp) == 1

\* Lines 75-116: one iteration of the loop, for the grid at position idx.
RouteIteration ==
    /\ script = "04" /\ pc = "route" /\ idx < Len(grids)
    /\ \E resp \in Responses :
          /\ LET appended == HandleResponse(resp, grids[idx + 1])
             IN  /\ responses' = Append(responses, resp)
                 /\ route_distances' = route_distances \o appended[1]
                 /\ route_durations' = route_durations \o appended[2]
          /\ requests_sent' = requests_sent + RequestsMade(resp)
          /\ requests' = requests \o [k \in 1..RequestsMade(resp) |-> Url(grids[idx + 1])]
    /\ idx' = idx + 1
    /\ UNCHANGED <<proc, pc, exit_status, files_read, written, grids, columns,
                   facilities, v05, v02, v03>>

\* Lines 118-125: the lists become columns; pandas raises ValueError when a
\* list's length differs from the number of rows.
RouteFinish ==
    /\ script = "04" /\ pc = "route" /\ idx = Len(grids)
    /\ IF Len(route_distances) = Len(grids) /\ Len(route_durations) = Len(grids)
       THEN /\ grids' = [i \in 1..Len(grids) |->
                            grids[i] @@ [route_distance_km |-> route_distances[i],
                                         travel_time_min |-> route_durations[i]]]
            /\ columns' = columns \cup {"route_distance_km", "travel_time_min"}
            /\ pc' = "save"
            /\ UNCHANGED exit_status
       ELSE /\ pc' = "crashed" /\ exit_status' = 1
            /\ UNCHANGED <<grids, columns>>
    /\ UNCHANGED <<proc, files_read, written, idx, v04, v05, v02, v03>>

\* Lines 167-169.
Main04Save ==
    /\ script = "04" /\ pc = "save"
    /\ written' = File(grids)
    /\ pc' = "done" /\ exit_status' = 0
    /\ UNCHANGED <<proc, files_read, grids, columns, idx, v04, v05, v02, v03>>

Init04 ==
    /\ script = "04"
    /\ argc \in ArgcValues("04")
    /\ input \in [grids_file : GridFiles04, facilities_file : FacilityFiles]
    /\ Fresh

-----------------------------------------------------------------------------
(* Script 05: 05_compute_metrics.py *)

PopValues == {0, 1, 3}
DistValues == {4, 8, 30}
NameValues == {"A", "B", NULL}

\* Rows of a grids GeoJSON given to script 05 directly, by the columns present.
Rows05(has_facility, has_population) ==
    IF has_facility /\ has_population
    THEN {[assigned_facility |-> n, route_distance_km |-> Int2Rat(d),
           population |-> Int2Rat(q)] :
          n \in NameValues, d \in DistValues, q \in PopValues}
    ELSE IF has_facility
    THEN {[assigned_facility |-> n, route_distance_km |-> Int2Rat(d)] :
          n \in NameValues, d \in DistValues}
    ELSE IF has_population
    THEN {[route_distance_km |-> Int2Rat(d), population |-> Int2Rat(q)] :
          d \in DistValues, q \in PopValues}
    ELSE {[route_distance_km |-> Int2Rat(d)] : d \in DistValues}

Cols05(has_facility, has_population) ==
    {"route_distance_km"}
    \cup (IF has_facility THEN {"assigned_facility"} ELSE {})
    \cup (IF has_population THEN {"population"} ELSE {})

GridFiles05 ==
    UNION {{[columns |-> Cols05(hf, hp), rows |-> r] :
              r \in SeqsUpTo(Rows05(hf, hp), 1, MaxGrids)} :
           hf \in BOOLEAN, hp \in BOOLEAN}

RECURSIVE RatSum(_)
RatSum(xs) == IF xs = <<>> THEN Int2Rat(0) ELSE RatAdd(Head(xs), RatSum(Tail(xs)))

Column(rows, c) == [i \in 1..Len(rows) |-> rows[i][c]]

DropNaN(xs) == SelectSeq(xs, LAMBDA x : ~IsNaN(x))

\* pandas Series.sum(): NaN entries are skipped.
pd_sum(xs) == RatSum(DropNaN(xs))

\* numpy.mean: the sum over the count, NaN for no values.
np_mean(xs) == RatDiv(RatSum(xs), Int2Rat(Len(xs)))

\* pandas Series.mean(): numpy.mean of the entries that are not NaN.
pd_mean(xs) == np_mean(DropNaN(xs))

\* A faulty average that ignores the weights.
np_average_Unweighted(xs, ws) == np_mean(xs)

\* numpy.average(a, weights=w): sum(a * w) / sum(w).
np_average(xs, ws) ==
    RatDiv(RatSum([i \in 1..Len(xs) |-> RatMul(xs[i], ws[i])]), RatSum(ws))

\* The position of a least element of a non-empty sequence.
MinPos(xs) == CHOOSE i \in 1..Len(xs) : \A j \in 1..Len(xs) : RatLe(xs[i], xs[j])

Remove(xs, i) == SubSeq(xs, 1, i - 1) \o SubSeq(xs, i + 1, Len(xs))

RECURSIVE Sorted(_)
Sorted(xs) ==
    IF xs = <<>> THEN <<>>
    ELSE <<xs[MinPos(xs)]>> \o Sorted(Remove(xs, MinPos(xs)))

HasNaN(xs) == \E i \in 1..Len(xs) : IsNaN(xs[i])

\* numpy.median / min / max: NaN when any entry is NaN.
np_median(xs) ==
    IF xs = <<>> \/ HasNaN(xs) THEN NaN
    ELSE LET t == Sorted(xs)
             n == Len(xs)
         IN  IF n % 2 = 1 THEN t[(n + 1) \div 2]
             ELSE RatDiv(RatAdd(t[n \div 2], t[n \div 2 + 1]), Int2Rat(2))

np_min(xs) == IF xs = <<>> \/ HasNaN(xs) THEN NaN ELSE Sorted(xs)[1]
np_max(xs) == IF xs = <<>> \/ HasNaN(xs) THEN NaN ELSE Sorted(xs)[Len(xs)]

\* pandas Series.median() / min() / max(): of the entries that are not NaN.
pd_median(xs) == np_median(DropNaN(xs))
pd_min(xs) == np_min(DropNaN(xs))
pd_max(xs) == np_max(DropNaN(xs))

\* Series.unique(): the distinct values in order of first appearance.
RECURSIVE Unique(_)
Unique(xs) ==
    IF xs = <<>> THEN <<>>
    ELSE LET init == Unique(SubSeq(xs, 1, Len(xs) - 1))
             last == xs[Len(xs)]
         IN  IF \E i \in 1..Len(init) : init[i] = last THEN init
             ELSE Append(init, last)

\* Line 53: grids[grids['assigned_facility'] == facility_name].
FacilityGrids(rows, facility_name) ==
    SelectSeq(rows, LAMBDA r : r.assigned_facility = facility_name)

\* Lines 57, 111: the population of a frame, 0 without the column.
TotalPop(rows, cols) ==
    IF "population" \in cols THEN pd_sum(Column(rows, "population")) ELSE Int2Rat(0)

\* Lines 76-78, 120-122: the population of the rows within km kilometres.
PopWithin(rows, cols, km) ==
    IF "population" \in cols
    THEN pd_sum(Column(SelectSeq(rows,
                    LAMBDA r : RatLe(r.route_distance_km, Int2Rat(km))), "population"))
    ELSE Int2Rat(0)

\* Lines 67-73: the population-weighted distance of a facility.
PopWeighted(rows, cols) ==
    IF "population" \in cols /\ RatLt(Int2Rat(0), TotalPop(rows, cols))
    THEN np_average(Column(rows, "route_distance_km"), Column(rows, "population"))
    ELSE np_mean(Column(rows, "route_distance_km"))

\* Lines 116-119: the population-weighted distance of the district.
DistrictPopWeighted(rows, cols) ==
    IF "population" \in cols /\ RatLt(Int2Rat(0), pd_sum(Column(rows, "population")))
    THEN np_average(Column(rows, "route_distance_km"), Column(rows, "population"))
    ELSE pd_mean(Column(rows, "route_distance_km"))

\* A faulty percentage that is left as a fraction.
Percent_Fraction(within, total_pop) ==
    IF RatLt(Int2Rat(0), total_pop) THEN RatDiv(within, total_pop) ELSE Int2Rat(0)

\* Lines 93-94, 123-124.
Percent(within, total_pop) ==
    IF RatLt(Int2Rat(0), total_pop)
    THEN RatMul(RatDiv(within, total_pop), Int2Rat(100))
    ELSE Int2Rat(0)

\* Lines 56-95: the metrics of one facility, from its grids.
FacilityMetrics(facility_name, facility_grids, cols) ==
    LET distances == Column(facility_grids, "route_distance_km")
        total_pop == TotalPop(facility_grids, cols)
    IN  [facility_name |-> facility_name,
         total_grids_served |-> Len(facility_grids),
         population_served |-> total_pop,
         mean_distance_km |-> np_mean(distances),
         median_distance_km |-> np_median(distances),
         min_distance_km |-> np_min(distances),
         max_distance_km |-> np_max(distances),
         pop_weighted_distance_km |-> PopWeighted(facility_grids, cols),
         pop_within_5km |-> PopWithin(facility_grids, cols, 5),
         pop_within_10km |-> PopWithin(facility_grids, cols, 10),
         pop_within_20km |-> PopWithin(facility_grids, cols, 20),
         percent_within_5km |-> Percent(PopWithin(facility_grids, cols, 5), total_pop),
         percent_within_10km |-> Percent(PopWithin(facility_grids, cols, 10), total_pop)]

\* Lines 107-125: the district-level summary row.
DistrictSummary(rows, cols) ==
    LET distances == Column(rows, "route_distance_km")
        total_pop == TotalPop(rows, cols)
    IN  [facility_name |-> "DISTRICT_TOTAL",
         total_grids_served |-> Len(rows),
         population_served |-> total_pop,
         mean_distance_km |-> pd_mean(distances),
         median_distance_km |-> pd_median(distances),
         min_distance_km |-> pd_min(distances),
         max_distance_km |-> pd_max(distances),
         pop_weighted_distance_km |-> DistrictPopWeighted(rows, cols),
         pop_within_5km |-> PopWithin(rows, cols, 5),
         pop_within_10km |-> PopWithin(rows, cols, 10),
         pop_within_20km |-> PopWithin(rows, cols, 20),
         percent_within_5km |-> Percent(PopWithin(rows, cols, 5), total_pop),
         percent_within_10km |-> Percent(PopWithin(rows, cols, 10), total_pop)]

\* Lines 30-43: the single row returned when there are no assignments.
NoFacilitiesRow ==
    [facility_name |-> "No facilities",
     total_grids_served |-> 0,
     population_served |-> Int2Rat(0),
     mean_distance_km |-> NaN,
     median_distance_km |-> NaN,
     min_distance_km |-> NaN,
     max_distance_km |-> NaN,
     pop_weighted_distance_km |-> NaN,
     pop_within_5km |-> Int2Rat(0),
     pop_within_10km |-> Int2Rat(0),
     pop_within_20km |-> Int2Rat(0)]

\* A faulty check that only looks for the column.
NoAssignments_ColumnOnly(rows, cols) == "assigned_facility" \notin cols

\* Line 28: the condition of the early return.
NoAssignments(rows, cols) ==
    \/ "assigned_facility" \notin cols
    \/ \A i \in 1..Len(rows) : rows[i].assigned_facility = NULL

\* A faulty loop over the names of all rows, duplicates included.
FacilityNamesOf_AllRows(rows) == Column(rows, "assigned_facility")

\* Line 48: grids['assigned_facility'].unique().
FacilityNamesOf(rows) == Unique(Column(rows, "assigned_facility"))

Main05CheckArgs ==
    /\ script = "05"
    /\ CheckArgs("05")

\* Lines 25-46: read the grids; return the 'No facilities' frame or start
\* the loop over the facility names.
Metrics05Load ==
    /\ script = "05" /\ pc = "load"
    /\ files_read' = {"grids_file"}
    /\ grids' = input.grids_file.rows
    /\ columns' = input.grids_file.columns
    /\ IF NoAssignments(input.grids_file.rows, input.grids_file.columns)
       THEN metrics_df' = <<NoFacilitiesRow>> /\ pc' = "save"
       ELSE metrics_df' = metrics_df /\ pc' = "facility"
    /\ idx' = 0
    /\ UNCHANGED <<proc, exit_status, written, v04, metrics_list, v02, v03>>

\* Lines 48-101: one iteration of the loop over the facility names.
Metrics05Facility ==
    /\ script = "05" /\ pc = "facility" /\ idx < Len(FacilityNamesOf(grids))
    /\ LET facility_name == FacilityNamesOf(grids)[idx + 1]
       IN  metrics_list' =
             IF facility_name = NULL THEN metrics_list
             ELSE Append(metrics_list,
                         FacilityMetrics(facility_name,
                                         FacilityGrids(grids, facility_name), columns))
    /\ idx' = idx + 1
    /\ UNCHANGED <<proc, pc, exit_status, files_read, written, grids, columns,
                   v04, metrics_df, v02, v03>>

\* Lines 103-129: the frame of the facility rows followed by the summary.
Metrics05Summary ==
    /\ script = "05" /\ pc = "facility" /\ idx = Len(FacilityNamesOf(grids))
    /\ metrics_df' = Append(metrics_list, DistrictSummary(grids, columns))
    /\ pc' = "save"
    /\ UNCHANGED <<proc, exit_status, files_read, written, grids, columns, idx,
                   v04, metrics_list, v02, v03>>

\* Lines 144-148.
Main05Save ==
    /\ script = "05" /\ pc = "save"
    /\ written' = File(metrics_df)
    /\ pc' = "done" /\ exit_status' = 0
    /\ UNCHANGED <<proc, files_read, grids, columns, idx, v04, v05, v02, v03>>

Init05 ==
    /\ script = "05"
    /\ argc \in ArgcValues("05")
    /\ input \in [grids_file : GridFiles05]
    /\ Fresh

\* The pipeline: script 05 is started on the file script 04 has written.
RunMetricsOnOutput ==
    /\ script = "04" /\ pc = "done"
    /\ script' = "05"
    /\ argc' = MinArgc("05")
    /\ input' = [grids_file |-> [columns |-> columns, rows |-> Contents(written)]]
    /\ pc' = "start"
    /\ exit_status' = -1
    /\ files_read' = {}
    /\ written' = NotWritten
    /\ grids' = <<>> /\ columns' = {}
    /\ facilities' = [columns |-> {}, rows |-> <<>>]
    /\ idx' = 0
    /\ responses' = <<>> /\ route_distances' = <<>> /\ route_durations' = <<>>
    /\ requests_sent' = 0 /\ requests' = <<>>
    /\ metrics_list' = <<>> /\ metrics_df' = <<>>
    /\ UNCHANGED <<v02, v03>>

-----------------------------------------------------------------------------
Init == Init02 \/ Init03 \/ Init04 \/ Init05

Next ==
    \/ Main02CheckArgs
    \/ Generate02Polyfill
    \/ Generate02Hexagon
    \/ Generate02Frame
    \/ Main02Save
    \/ Main03CheckArgs
    \/ Extract03Open
    \/ Extract03Grid
    \/ Extract03Finish
    \/ Main03Save
    \/ Main04CheckArgs
    \/ Main04Load
    \/ Main04NoFacilities
    \/ assign_grids_to_facilities
    \/ RouteIteration
    \/ RouteFinish
    \/ Main04Save
    \/ RunMetricsOnOutput
    \/ Main05CheckArgs
    \/ Metrics05Load
    \/ Metrics05Facility
    \/ Metrics05Summary
    \/ Main05Save

Spec == Init /\ [][Next]_vars

-----------------------------------------------------------------------------
(* Properties *)

Script04Assigned ==
    script = "04" /\ pc \in {"route", "save", "done", "crashed"} /\ Len(facilities.rows) > 0

Script04Recorded ==
    script = "04" /\ pc \in {"save", "done"} /\ Len(facilities.rows) > 0

DistSq(row, f) ==
    (row.centroid_lat - f.latitude) * (row.centroid_lat - f.latitude)
    + (row.centroid_lon - f.longitude) * (row.centroid_lon - f.longitude)

\* C1: after assign_grids_to_facilities, every grid carries the name, id,
\* latitude and longitude of one facility row, and no facility of the table
\* is closer (Euclidean, in lat/lon) to the grid's centroid than that row.
C1_NearestFacility ==
    Script04Assigned =>
        \A i \in 1..Len(grids) :
            \E k \in 1..Len(facilities.rows) :
                /\ \A j \in 1..Len(facilities.rows) :
                      DistSq(grids[i], facilities.rows[k]) <= DistSq(grids[i], facilities.rows[j])
                /\ grids[i].assigned_facility = facilities.rows[k].name
                /\ grids[i].assigned_facility_id = k - 1
                /\ grids[i].assigned_facility_lat = facilities.rows[k].latitude
                /\ grids[i].assigned_facility_lon = facilities.rows[k].longitude

\* Two grids assigned to different facilities, one of them not to the
\* first row of the table.
C1_Witness ==
    /\ Script04Assigned
    /\ \E i, j \in 1..Len(grids) :
          /\ grids[i].assigned_facility_id = 0
          /\ grids[j].assigned_facility_id = 1
          /\ grids[j].assigned_facility_lat # grids[i].assigned_facility_lat

\* The ways a routing request fails.
RequestFailed(resp) ==
    \/ resp.raised
    \/ resp.status # 200
    \/ ~resp.json
    \/ resp.code # "Ok"
    \/ Len(resp.routes) = 0

\* C2: a grid whose routing request failed (exception or timeout, status
\* other than 200, code other than 'Ok', no routes) is recorded with
\* route_distance_km = straight_line_distance_km and travel_time_min =
\* straight_line_distance_km / 0.5, that is twice the distance.
C2_FallbackOnFailure ==
    Script04Recorded =>
        \A i \in 1..Len(grids) :
            RequestFailed(responses[i]) =>
                /\ grids[i].route_distance_km = grids[i].straight_line_distance_km
                /\ grids[i].travel_time_min =
                      RatMul(Int2Rat(2), grids[i].straight_line_distance_km)

\* A recorded run in which a request failed for a grid that is not at its
\* facility, and another request succeeded.
C2_Witness ==
    /\ Script04Recorded /\ pc = "done"
    /\ \E i, j \in 1..Len(grids) :
          /\ RequestFailed(responses[i])
          /\ grids[i].straight_line_distance_km # Int2Rat(0)
          /\ ~RequestFailed(responses[j])

\* C3: a grid whose request returned 200, code 'Ok' and a route is recorded
\* with the first route's distance / 1000 and duration / 60, not with the
\* straight-line values.
C3_RouteOnSuccess ==
    Script04Recorded =>
        \A i \in 1..Len(grids) :
            ~RequestFailed(responses[i]) =>
                /\ RatMul(grids[i].route_distance_km, Int2Rat(1000))
                      = Int2Rat(responses[i].routes[1].distance)
                /\ RatMul(grids[i].travel_time_min, Int2Rat(60))
                      = Int2Rat(responses[i].routes[1].duration[1])

\* A recorded run with a successful request whose route differs from the
\* straight line.
C3_Witness ==
    /\ Script04Recorded /\ pc = "done"
    /\ \E i \in 1..Len(grids) :
          /\ ~RequestFailed(responses[i])
          /\ grids[i].route_distance_km # grids[i].straight_line_distance_km
          /\ grids[i].straight_line_distance_km # Int2Rat(0)

\* Script 05 has returned a frame computed by the loop over the facilities.
Script05Aggregated ==
    /\ script = "05" /\ pc \in {"save", "done"}
    /\ metrics_df[Len(metrics_df)].facility_name = "DISTRICT_TOTAL"

\* The grids (positions in the frame) a row of the metrics aggregates.
RowGrids(k) ==
    IF k = Len(metrics_df) THEN 1..Len(grids)
    ELSE {i \in 1..Len(grids) : grids[i].assigned_facility = metrics_df[k].facility_name}

RECURSIVE SumOver(_, _)
SumOver(S, f) ==
    IF S = {} THEN Int2Rat(0)
    ELSE LET i == CHOOSE x \in S : TRUE
         IN  RatAdd(f[i], SumOver(S \ {i}, f))

Population == [i \in 1..Len(grids) |->
                 IF "population" \in columns THEN grids[i].population ELSE Int2Rat(0)]
Dist == [i \in 1..Len(grids) |-> grids[i].route_distance_km]
PopTimesDist == [i \in 1..Len(grids) |-> RatMul(Population[i], Dist[i])]

\* C4: in every facility row and in the DISTRICT_TOTAL row,
\* pop_weighted_distance_km is sum(population * distance) / sum(population)
\* over the row's grids when that population is positive, and the plain mean
\* of the distances when it is 0 or there is no population column.
C4_PopWeightedDistance ==
    Script05Aggregated =>
        \A k \in 1..Len(metrics_df) :
            LET G == RowGrids(k)
                w == metrics_df[k].pop_weighted_distance_km
            IN  IF "population" \in columns /\ RatLt(Int2Rat(0), SumOver(G, Population))
                THEN RatMul(w, SumOver(G, Population)) = SumOver(G, PopTimesDist)
                ELSE RatMul(w, Int2Rat(Cardinality(G))) = SumOver(G, Dist)

\* A facility row over two grids of different distance and different
\* positive population: the weighted distance is not the mean.
C4_Witness ==
    /\ Script05Aggregated
    /\ "population" \in columns
    /\ \E k \in 1..(Len(metrics_df) - 1) :
          /\ \E i, j \in RowGrids(k) :
                /\ RatLt(Dist[i], Dist[j])
                /\ RatLt(Int2Rat(0), Population[i])
                /\ RatLt(Population[i], Population[j])
          /\ metrics_df[k].pop_weighted_distance_km # metrics_df[k].mean_distance_km

\* The raster cells a grid polygon contains that count as population.
CountedCells(src, geometry) ==
    {q \in geometry \cap (1..RasterWidth) :
        /\ src.nodata = <<>> \/ src.band[q] # src.nodata[1]
        /\ src.band[q] > 0}

RECURSIVE CellSum(_, _)
CellSum(src, S) ==
    IF S = {} THEN 0
    ELSE LET q == CHOOSE x \in S : TRUE
         IN  src.band[q] + CellSum(src, S \ {q})

\* C5: extract_population gives every input grid one population: the sum of
\* the raster cells inside its polygon that are not nodata and are > 0, 0 when
\* there is none or the mask raised; it is never negative, and every grid
\* gets its value whatever happened for the grids before it.
C5_Population ==
    (script = "03" /\ pc \in {"save", "done"}) =>
        /\ Len(grids) = Len(input.grids_file)
        /\ \A i \in 1..Len(grids) :
              /\ grids[i].hex_id = input.grids_file[i].hex_id
              /\ grids[i].population =
                    Int2Rat(CellSum(input.population_tif,
                                    CountedCells(input.population_tif,
                                                 input.grids_file[i].geometry)))
              /\ RatLe(Int2Rat(0), grids[i].population)
              /\ MaskRaises(input.population_tif, input.grids_file[i].geometry)
                    => grids[i].population = Int2Rat(0)

\* The mask raised for one grid and a later grid got a positive population
\* from a polygon that also holds a negative cell.
C5_Witness ==
    /\ script = "03" /\ pc = "done"
    /\ \E i, j \in 1..Len(grids) :
          /\ i < j
          /\ MaskRaises(input.population_tif, grids[i].geometry)
          /\ RatLt(Int2Rat(0), grids[j].population)
          /\ \E q \in grids[j].geometry \cap (1..RasterWidth) :
                input.population_tif.band[q] < 0

\* No grid of the frame carries a facility name.
NothingAssigned ==
    \/ "assigned_facility" \notin columns
    \/ \A i \in 1..Len(grids) : grids[i].assigned_facility = NULL

\* C6: with an empty facilities table script 04 assigns nothing, sends no
\* request and writes every grid with a null assigned_facility and NaN
\* route_distance_km and travel_time_min; compute_facility_metrics on a frame
\* without the assigned_facility column or with only null names returns the
\* single 'No facilities' row (0 grids, 0 population, NaN distances, 0 in
\* every band) and no DISTRICT_TOTAL row.
C6_NoFacilities ==
    /\ (script = "04" /\ pc \in {"save", "done"} /\ Len(facilities.rows) = 0) =>
          /\ requests_sent = 0 /\ responses = <<>>
          /\ "assigned_facility_id" \notin columns
          /\ \A i \in 1..Len(grids) :
                /\ grids[i].assigned_facility = NULL
                /\ IsNaN(grids[i].route_distance_km)
                /\ IsNaN(grids[i].travel_time_min)
          /\ pc = "done" => written = File(grids)
    /\ (script = "05" /\ pc \in {"save", "done"} /\ NothingAssigned) =>
          /\ Len(metrics_df) = 1
          /\ metrics_df[1].facility_name = "No facilities"
          /\ metrics_df[1].total_grids_served = 0
          /\ metrics_df[1].population_served = Int2Rat(0)
          /\ IsNaN(metrics_df[1].mean_distance_km)
          /\ IsNaN(metrics_df[1].median_distance_km)
          /\ IsNaN(metrics_df[1].min_distance_km)
          /\ IsNaN(metrics_df[1].max_distance_km)
          /\ IsNaN(metrics_df[1].pop_weighted_distance_km)
          /\ metrics_df[1].pop_within_5km = Int2Rat(0)
          /\ metrics_df[1].pop_within_10km = Int2Rat(0)
          /\ metrics_df[1].pop_within_20km = Int2Rat(0)
          /\ pc = "done" => written = File(metrics_df)

\* Script 05 has finished on the file script 04 wrote for an empty
\* facilities table.
C6_Witness ==
    /\ script = "05" /\ pc = "done"
    /\ Len(grids) > 1
    /\ {"assigned_facility", "travel_time_min"} \subseteq columns
    /\ \A i \in 1..Len(grids) :
          grids[i].assigned_facility = NULL /\ IsNaN(grids[i].route_distance_km)

\* C7: the requests are batched, ceil(n / batch_size) requests for n grids.
C7_BatchedRequests ==
    (script = "04" /\ pc \in {"save", "done", "crashed"} /\ Len(facilities.rows) > 0) =>
        requests_sent = (Len(grids) + batch_size - 1) \div batch_size

\* The distinct non-null facility names of the frame.
AssignedNames == {grids[i].assigned_facility : i \in 1..Len(grids)} \ {NULL}

\* C8: when some grid has a facility name, the metrics are one row per
\* distinct non-null name, each counting the grids that carry the name,
\* followed by one last row named DISTRICT_TOTAL.
C8_OneRowPerFacility ==
    (script = "05" /\ pc \in {"save", "done"} /\ ~NothingAssigned) =>
        LET n == Len(metrics_df) - 1
        IN  /\ n = Cardinality(AssignedNames)
            /\ metrics_df[n + 1].facility_name = "DISTRICT_TOTAL"
            /\ {metrics_df[k].facility_name : k \in 1..n} = AssignedNames
            /\ \A k \in 1..n :
                  metrics_df[k].total_grids_served =
                    Cardinality({i \in 1..Len(grids) :
                                   grids[i].assigned_facility = metrics_df[k].facility_name})

\* Two grids assigned to different facilities of the same name are
\* aggregated into one row.
C8_Witness ==
    /\ script = "05" /\ pc = "done"
    /\ "assigned_facility_id" \in columns
    /\ \E i, j \in 1..Len(grids) :
          /\ grids[i].assigned_facility_id # grids[j].assigned_facility_id
          /\ grids[i].assigned_facility = grids[j].assigned_facility
    /\ Len(metrics_df) = 2
    /\ metrics_df[1].total_grids_served = 2

\* C9: generate_h3_grids returns one row per cell of the tiling of the
\* district's first geometry, with pairwise distinct hex_id values and the
\* centroid of the cell on every row.
C9_OneRowPerCell ==
    (script = "02" /\ pc \in {"save", "done"}) =>
        LET cells == polyfill_geojson(input.district_file[1], Resolution)
        IN  /\ Len(grids) = Cardinality(cells)
            /\ {grids[i].hex_id : i \in 1..Len(grids)} = cells
            /\ \A i, j \in 1..Len(grids) : i # j => grids[i].hex_id # grids[j].hex_id
            /\ \A i \in 1..Len(grids) :
                  /\ grids[i].centroid_lat = Int2Rat(CellCentre(grids[i].hex_id).lat)
                  /\ grids[i].centroid_lon = Int2Rat(CellCentre(grids[i].hex_id).lon)

\* A district of two geometries, tiled into several cells, whose second
\* geometry covers a cell the first does not.
C9_Witness ==
    /\ script = "02" /\ pc = "done"
    /\ Len(input.district_file) > 1
    /\ Len(grids) > 1
    /\ polyfill_geojson(input.district_file[2], Resolution)
          \ polyfill_geojson(input.district_file[1], Resolution) # {}

\* The number of command-line arguments each script requires.
RequiredArgs ==
    [s \in {"02", "03", "04", "05"} |->
        CASE s = "02" -> 2 [] s = "03" -> 3 [] s = "04" -> 4 [] s = "05" -> 3]

\* C10: a script given fewer than its required arguments exits with status
\* 1 having read and written nothing; script 04 exits with status 1 without
\* assigning, routing or writing when the facilities CSV lacks one of the
\* columns name, latitude, longitude.
C10_UsageAndValidation ==
    /\ (argc - 1 < RequiredArgs[script] /\ pc # "start") =>
          /\ pc = "exited" /\ exit_status = 1
          /\ files_read = {} /\ written = NotWritten
    /\ (script = "04" /\ pc \notin {"start", "load"}
          /\ ~(RequiredCols \subseteq input.facilities_file.columns)) =>
          /\ pc = "exited" /\ exit_status = 1
          /\ written = NotWritten
          /\ requests_sent = 0
          /\ "assigned_facility" \notin columns

\* Script 04 has exited on a facilities CSV that lacks a column.
C10_Witness ==
    /\ script = "04" /\ pc = "exited"
    /\ files_read # {}
    /\ ~(RequiredCols \subseteq input.facilities_file.columns)

\* C11: whatever the routing outcomes, each iteration appends exactly one
\* distance and one travel time, so both lists are as long as the number of
\* grids handled and, after the loop, as the number of grids.
C11_OneEntryPerGrid ==
    Script04Assigned =>
        /\ Len(route_distances) = idx
        /\ Len(route_durations) = idx

\* A response carries a usable route: 200, 'Ok', a route with a numeric
\* distance and a numeric duration.
RouteUsable(resp) == ~RequestFailed(resp) /\ Len(resp.routes[1].duration) > 0

\* The distance and travel time a grid's own outcome calls for.
OwnDistance(resp, row) ==
    IF RouteUsable(resp) THEN Rat(resp.routes[1].distance, 1000)
    ELSE row.straight_line_distance_km

OwnDuration(resp, row) ==
    IF RouteUsable(resp) THEN Rat(resp.routes[1].duration[1], 60)
    ELSE RatMul(Int2Rat(2), row.straight_line_distance_km)

\* C12: a routing failure for one grid neither aborts the function nor
\* changes another grid's result: every grid is requested, the run does not
\* end in an exception, and entry j of each list is what grid j's own
\* outcome and straight-line distance call for.
C12_FailuresAreIsolated ==
    Script04Assigned =>
        /\ pc # "crashed"
        /\ pc \in {"save", "done"} => requests_sent = Len(grids)
        /\ \A j \in 1..idx :
              /\ route_distances[j] = OwnDistance(responses[j], grids[j])
              /\ route_durations[j] = OwnDuration(responses[j], grids[j])

AssignedColumns ==
    {"assigned_facility", "assigned_facility_id", "assigned_facility_lat",
     "assigned_facility_lon", "straight_line_distance_km"}

\* C13: with a non-empty facilities table, a routing request is sent only
\* once every grid carries an assigned facility, and request k goes from
\* grid k's own centroid to the coordinates of the facility row assigned to
\* grid k.
C13_RouteToAssignedFacility ==
    (script = "04" /\ (pc = "route" \/ requests # <<>>)) =>
        /\ Len(facilities.rows) > 0
        /\ AssignedColumns \subseteq columns
        /\ \A i \in 1..Len(grids) :
              grids[i].assigned_facility_id \in 0..(Len(facilities.rows) - 1)
        /\ \A k \in 1..Len(requests) :
              LET f == facilities.rows[grids[k].assigned_facility_id + 1]
              IN  requests[k] = <<grids[k].centroid_lon, grids[k].centroid_lat,
                                  f.longitude, f.latitude>>

\* Two requests sent from different centroids to different facilities.
C13_Witness ==
    /\ script = "04" /\ pc = "done"
    /\ Len(requests) = 2
    /\ <<requests[1][1], requests[1][2]>> # <<requests[2][1], requests[2][2]>>
    /\ <<requests[1][3], requests[1][4]>> # <<requests[2][3], requests[2][4]>>

FieldTimes100(x) == RatMul(x, Int2Rat(100))

NonNegativePopulations == \A i \in 1..Len(grids) : RatLe(Int2Rat(0), Population[i])

\* C15: in every facility row and in the DISTRICT_TOTAL row, the two
\* percentages are pop_within / population_served * 100 when
\* population_served is positive and 0 when it is 0, and for non-negative
\* grid populations they lie between 0 and 100.
C15_Percentages ==
    Script05Aggregated =>
        \A k \in 1..Len(metrics_df) :
            LET r == metrics_df[k]
            IN  /\ IF RatLt(Int2Rat(0), r.population_served)
                   THEN /\ RatMul(r.percent_within_5km, r.population_served)
                             = FieldTimes100(r.pop_within_5km)
                        /\ RatMul(r.percent_within_10km, r.population_served)
                             = FieldTimes100(r.pop_within_10km)
                   ELSE /\ r.population_served = Int2Rat(0) =>
                             /\ r.percent_within_5km = Int2Rat(0)
                             /\ r.percent_within_10km = Int2Rat(0)
                /\ NonNegativePopulations =>
                      /\ RatLe(Int2Rat(0), r.percent_within_5km)
                      /\ RatLe(r.percent_within_5km, r.percent_within_10km)
                      /\ RatLe(r.percent_within_10km, Int2Rat(100))

\* A row whose population is split over the distance bands, and one of
\* population 0.
C15_Witness ==
    /\ Script05Aggregated
    /\ \E k \in 1..Len(metrics_df) :
          /\ RatLt(Int2Rat(0), metrics_df[k].percent_within_5km)
          /\ RatLt(metrics_df[k].percent_within_5km, metrics_df[k].percent_within_10km)
    /\ \E k \in 1..Len(metrics_df) :
          /\ metrics_df[k].population_served # Int2Rat(0)
          /\ metrics_df[k].percent_within_10km = Int2Rat(100)

====
